---- MODULE Spec2Model ----
(***************************************************************************)
(* Model of the live quiz arena of src/app.py: the three process-wide      *)
(* dictionaries live_players, live_scores and live_quiz_state, the         *)
(* Socket.IO handlers that mutate them, the background task                *)
(* send_questions_task and the result writer save_live_quiz_results.       *)
(*                                                                         *)
(* Scheduling.  The server runs on gevent with monkey.patch_all()          *)
(* (app.py:5-6, 29-35): every handler and every background task is a       *)
(* greenlet, and a greenlet gives up the processor only where it blocks:   *)
(* socketio.sleep (app.py:311, 343, 353) and the MongoDB round trips       *)
(* find_one / insert_one (app.py:301, 401, 431, 671).  Each action below   *)
(* is the code between two such points.  A handler whose only blocking     *)
(* call comes before its first access to the dictionaries is one action.   *)
(*                                                                         *)
(* A Python dict is modelled as the sequence of its <<key, value>> items   *)
(* in insertion order, which is the order .items() and sorted() see.       *)
(***************************************************************************)
EXTENDS Integers, Sequences, FiniteSets, TLC

\* ------------------------------------------------------------- bounds
\* Largest cumulative score a submit may produce.
MaxScore == 20
\* Number of successful start_quiz requests (background tasks spawned).
MaxStarts == 2
\* Number of client requests served (HTTP routes and Socket.IO events).
MaxEvents == 5

\* ------------------------------------------------------------- inputs
QuizIds == {"q1"}
Master == "m"
Players == {"u1", "u2"}
Requesters == Players \cup {Master}
\* The username each client sends with join_lobby.
NameOf(user_id) == IF user_id = "u1" THEN "ann" ELSE "bob"
Sids == {"s1", "s2"}
\* A field absent from the request payload: data.get(...) is None, and the
\* handlers test it with "not x", which the empty string fails the same way.
Missing == ""

\* ------------------------------------------------------------- dicts
Keys(d) == [i \in 1..Len(d) |-> d[i][1]]

Has(d, k) == \E i \in 1..Len(d) : d[i][1] = k

Get(d, k) == d[CHOOSE i \in 1..Len(d) : d[i][1] = k][2]

\* As Put, but the item is appended even when the key is already there.
PutAppendAlways(d, k, v) == Append(d, <<k, v>>)

\* d[k] = v: an existing key keeps its place, a new key goes last.
Put(d, k, v) ==
    IF Has(d, k)
    THEN [i \in 1..Len(d) |-> IF d[i][1] = k THEN <<k, v>> ELSE d[i]]
    ELSE Append(d, <<k, v>>)

\* del d[k]
Del(d, k) == SelectSeq(d, LAMBDA e : e[1] # k)

\* ------------------------------------------------------------- strings
\* A Python str is modelled as the sequence of its characters.
Whitespace == {" "}
Lowers == <<"a", "e", "i", "p", "r", "s", "t", "u">>
Uppers == <<"A", "E", "I", "P", "R", "S", "T", "U">>

UpperChar(c) ==
    IF \E i \in 1..Len(Lowers) : Lowers[i] = c
    THEN Uppers[CHOOSE i \in 1..Len(Lowers) : Lowers[i] = c]
    ELSE c

LowerChar(c) ==
    IF \E i \in 1..Len(Uppers) : Uppers[i] = c
    THEN Lowers[CHOOSE i \in 1..Len(Uppers) : Uppers[i] = c]
    ELSE c

\* str.upper() and str.lower()
Upper(s) == [i \in 1..Len(s) |-> UpperChar(s[i])]
Lower(s) == [i \in 1..Len(s) |-> LowerChar(s[i])]

RECURSIVE LStrip(_)
LStrip(s) == IF s # <<>> /\ Head(s) \in Whitespace THEN LStrip(Tail(s)) ELSE s

RECURSIVE RStrip(_)
RStrip(s) ==
    IF s # <<>> /\ s[Len(s)] \in Whitespace
    THEN RStrip(SubSeq(s, 1, Len(s) - 1))
    ELSE s

\* str.strip()
Strip(s) == RStrip(LStrip(s))

Paris == <<"P", "a", "r", "i", "s">>
ParisLower == <<"p", "a", "r", "i", "s">>
ParisPadded == <<" ", "p", "a", "r", "i", "s", " ">>
TrueUpper == <<"T", "R", "U", "E">>
TrueLower == <<"t", "r", "u", "e">>
\* The answers a client submits.
Answers == {Paris, ParisLower, TrueLower}

\* ------------------------------------------------------------- quiz store
\* The quiz as create_quiz stores it: two questions, 10 points in 20 s and
\* 5 points in 15 s.
QuizCreated ==
    [title |-> "Capitals", createdBy |-> Master,
     questions |-> <<
        [type |-> "mcq", text |-> "capital of France", answer |-> Paris,
         points |-> 10, time |-> 20, options |-> <<"Paris", "Rome">>],
        [type |-> "tf", text |-> "Paris is in France", answer |-> TrueUpper,
         points |-> 5, time |-> 15] >>]

\* The quiz as edit_quiz rewrites it: edit_quiz stores no 'time' key, and
\* here the author kept one short-answer question worth 20 points.
QuizEdited ==
    [title |-> "Capitals v2", createdBy |-> Master,
     questions |-> <<
        [type |-> "short", text |-> "capital of France", answer |-> Paris,
         points |-> 20] >>]

\* question.get('time', 30)
DefaultTime == 30
TimeOf(question) ==
    IF "time" \in DOMAIN question THEN question.time ELSE DefaultTime

\* question.get('points', 1)
DefaultPoints == 1
PointsOf(question) ==
    IF "points" \in DOMAIN question THEN question.points ELSE DefaultPoints

\* ------------------------------------------------------------- state
VARIABLES
    live_players,     \* dict quiz_id -> dict user_id -> [username, sid]
    live_scores,      \* dict quiz_id -> dict user_id -> score
    live_quiz_state,  \* dict quiz_id -> [started, current_question, master_id]
    quizzes,          \* the quizzes collection: dict quiz_id -> quiz document
    results,          \* the results collection: the documents inserted, in order
    tasks,            \* the background tasks spawned by start_quiz, in order
    events,           \* number of client requests served
    out               \* what the last handler or task step emitted, in order

vars == <<live_players, live_scores, live_quiz_state, quizzes, results, tasks,
          events, out>>

\* emit(event, payload) answers the requesting connection; with room= it goes
\* to a room (a quiz's room, or the private room of one connection).
ToSid(sid) == <<"sid", sid>>
ToRoom(quiz_id) == <<"room", quiz_id>>
Msg(to, ev, data) == [to |-> to, ev |-> ev, data |-> data]
ErrorMsg(sid, text) == Msg(ToSid(sid), "error", [message |-> text])

\* The player_list payload: one {user_id, username} per item of the dict.
PlayerList(players) ==
    [i \in 1..Len(players) |->
        [user_id |-> players[i][1], username |-> players[i][2].username]]

PlayersOf(quiz_id) ==
    IF Has(live_players, quiz_id) THEN Get(live_players, quiz_id) ELSE <<>>

ScoresOf(quiz_id) ==
    IF Has(live_scores, quiz_id) THEN Get(live_scores, quiz_id) ELSE <<>>

\* live_quiz_state.get(quiz_id, {}).get('master_id'): None without a session.
NoMaster == "None"
MasterOf(quiz_id) ==
    IF Has(live_quiz_state, quiz_id)
    THEN Get(live_quiz_state, quiz_id).master_id
    ELSE NoMaster

\* As IsMaster, but any requester passes once the quiz has a session.
IsMasterAnySession(quiz_id, user_id) == Has(live_quiz_state, quiz_id)

\* The check "state.get('master_id') != ..." of the kick and start handlers.
IsMaster(quiz_id, user_id) == MasterOf(quiz_id) = user_id

StartedOf(quiz_id) ==
    Has(live_quiz_state, quiz_id) /\ Get(live_quiz_state, quiz_id).started

Init ==
    /\ live_players = <<>>
    /\ live_scores = <<>>
    /\ live_quiz_state = <<>>
    /\ quizzes = [i \in 1..1 |-> <<"q1", QuizCreated>>]
    /\ results = <<>>
    /\ tasks = <<>>
    /\ events = 0
    /\ out = <<>>

\* ------------------------------------------------------------- tasks
\* A background task is at one of its blocking points:
\*   "fetch"   spawned, before quizzes_col.find_one returns     (app.py:301)
\*   "loop"    in socketio.sleep(3) or socketio.sleep(2)        (app.py:311, 353)
\*   "asking"  in socketio.sleep(time_for_question)             (app.py:343)
\*   "insert"  in results_col.insert_one(result_doc)            (app.py:401)
\*   "returned" returned early: quiz not found (app.py:305) or no scores
\*             to save (app.py:374)
\*   "done"    returned after the clean-up of save_live_quiz_results
\*   "failed"  ended by an uncaught exception
\* While it is in "insert" it holds the view iterator of scores.items()
\* (app.py:380) and the references scores and players (app.py:369-370):
\*   rest   the keys the iterator has not passed yet, in entry order
\*   left   how many items the iterator still expects
\*   used   the dict size the iterator expects
\*   scoresLive / playersLive   whether the reference is still the dict held
\*          in live_scores / live_players, else scoresOld / playersOld is
\*          the dict it refers to (no longer reachable by any handler)
\*   tried  the items the loop has been through: <<user_id, ok>>, ok telling
\*          whether insert_one returned (saved_count += 1) or raised
\* While it runs it also records what it has sent to the room:
\*   sent   the new_question, question_time_up and quiz_ended events of
\*          this run, in order, each with the loop's index idx
NoQuiz == [title |-> "", createdBy |-> "", questions |-> <<>>]
NoDoc == [student_id |-> ""]

NewTask(quiz_id) ==
    [quiz_id |-> quiz_id, pc |-> "fetch", quiz |-> NoQuiz, idx |-> 0,
     rest |-> <<>>, left |-> 0, used |-> 0, total |-> 0, doc |-> NoDoc,
     tried |-> <<>>, sent |-> <<>>,
     scoresLive |-> FALSE, scoresOld |-> <<>>,
     playersLive |-> FALSE, playersOld |-> <<>>]

\* A task that is over keeps nothing but how it ended.
Ended(t, how) == [NewTask(t.quiz_id) EXCEPT !.pc = how]

Iterating(t, quiz_id) ==
    t.pc = "insert" /\ t.quiz_id = quiz_id /\ t.scoresLive

\* live_scores[quiz_id][k] = 0 for a new key k: the entry is appended, so an
\* iterator over that dict will come to it.
OnScoreAdd(ts, quiz_id, k) ==
    [i \in 1..Len(ts) |->
        IF Iterating(ts[i], quiz_id)
        THEN [ts[i] EXCEPT !.rest = Append(@, k)]
        ELSE ts[i]]

\* del live_scores[quiz_id][k]: an iterator that has not passed the entry
\* skips it.
OnScoreDel(ts, quiz_id, k) ==
    [i \in 1..Len(ts) |->
        IF Iterating(ts[i], quiz_id)
        THEN [ts[i] EXCEPT !.rest = SelectSeq(@, LAMBDA x : x # k)]
        ELSE ts[i]]

\* del live_players[quiz_id]; del live_scores[quiz_id] by another task: the
\* dicts leave the global maps, a task iterating them keeps them.
OnPurge(ts, quiz_id) ==
    [i \in 1..Len(ts) |->
        IF ts[i].pc = "insert" /\ ts[i].quiz_id = quiz_id
        THEN [ts[i] EXCEPT
                !.scoresOld = IF ts[i].scoresLive THEN ScoresOf(quiz_id) ELSE @,
                !.scoresLive = FALSE,
                !.playersOld = IF ts[i].playersLive THEN PlayersOf(quiz_id) ELSE @,
                !.playersLive = FALSE]
        ELSE ts[i]]

\* ------------------------------------------------------------- handlers
\* The lobby route: creates the session of an existing quiz on first access.
Lobby(quiz_id) ==
    /\ live_quiz_state' =
        IF Has(quizzes, quiz_id) /\ ~Has(live_quiz_state, quiz_id)
        THEN Put(live_quiz_state, quiz_id,
                 [started |-> FALSE, current_question |-> 0,
                  master_id |-> Get(quizzes, quiz_id).createdBy])
        ELSE live_quiz_state
    /\ out' = <<>>
    /\ UNCHANGED <<live_players, live_scores, quizzes, results, tasks>>

\* As SidMatches, but every entry is taken for the connection's.
SidMatchesAny(info, sid) == TRUE

\* "if info.get('sid') == request.sid"
SidMatches(info, sid) == info.sid = sid

RECURSIVE DropSid(_, _, _, _)
\* The inner loop of handle_disconnect over list(players.items()).
DropSid(players, items, sid, quiz_id) ==
    IF items = <<>>
    THEN [players |-> players, out |-> <<>>]
    ELSE LET e == Head(items)
             hit == SidMatches(e[2], sid)
             after == IF hit THEN Del(players, e[1]) ELSE players
             r == DropSid(after, Tail(items), sid, quiz_id)
         IN  [players |-> r.players,
              out |-> (IF hit
                       THEN <<Msg(ToRoom(quiz_id), "player_list",
                                  [players |-> PlayerList(after)])>>
                       ELSE <<>>) \o r.out]

RECURSIVE DropSidAll(_, _, _)
\* The outer loop of handle_disconnect over list(live_players.keys()).
DropSidAll(lp, quiz_ids, sid) ==
    IF quiz_ids = <<>>
    THEN [lp |-> lp, out |-> <<>>]
    ELSE LET q == Head(quiz_ids)
             r == DropSid(Get(lp, q), Get(lp, q), sid, q)
             rr == DropSidAll(Put(lp, q, r.players), Tail(quiz_ids), sid)
         IN  [lp |-> rr.lp, out |-> r.out \o rr.out]

Disconnect(sid) ==
    LET r == DropSidAll(live_players, Keys(live_players), sid)
    IN  /\ live_players' = r.lp
        /\ out' = r.out
        /\ UNCHANGED <<live_scores, live_quiz_state, quizzes, results, tasks>>

\* As PreviousScore, but the score is reported only for a participant who is
\* still present.
PreviousScoreIfPresent(quiz_id, user_id) ==
    IF Has(PlayersOf(quiz_id), user_id) /\ Has(ScoresOf(quiz_id), user_id)
    THEN Get(ScoresOf(quiz_id), user_id)
    ELSE 0

\* previous_score of handle_join_lobby: the ledger's entry, else 0.
PreviousScore(quiz_id, user_id) ==
    IF Has(ScoresOf(quiz_id), user_id)
    THEN Get(ScoresOf(quiz_id), user_id)
    ELSE 0

JoinLobby(sid, quiz_id, user_id, username) ==
    IF quiz_id = Missing \/ user_id = Missing \/ username = Missing
    THEN /\ out' = <<ErrorMsg(sid, "Missing required data")>>
         /\ UNCHANGED <<live_players, live_scores, live_quiz_state, quizzes,
                        results, tasks>>
    ELSE LET is_rejoin == Has(PlayersOf(quiz_id), user_id)
             known == Has(ScoresOf(quiz_id), user_id)
             previous_score == PreviousScore(quiz_id, user_id)
             players == Put(PlayersOf(quiz_id), user_id,
                            [username |-> username, sid |-> sid])
         IN  /\ live_players' = Put(live_players, quiz_id, players)
             /\ live_scores' =
                 IF known THEN live_scores
                 ELSE Put(live_scores, quiz_id,
                          Put(ScoresOf(quiz_id), user_id, 0))
             /\ tasks' = IF known THEN tasks
                         ELSE OnScoreAdd(tasks, quiz_id, user_id)
             /\ out' = << Msg(ToRoom(quiz_id), "player_list",
                              [players |-> PlayerList(players)]),
                          Msg(ToSid(sid), "joined",
                              [quiz_id |-> quiz_id, is_rejoin |-> is_rejoin,
                               quiz_started |-> StartedOf(quiz_id),
                               current_score |-> previous_score]) >>
             /\ UNCHANGED <<live_quiz_state, quizzes, results>>

LeaveLobby(sid, quiz_id, user_id) ==
    IF quiz_id # Missing /\ user_id # Missing
       /\ Has(PlayersOf(quiz_id), user_id)
    THEN LET players == Del(PlayersOf(quiz_id), user_id)
         IN  /\ live_players' = Put(live_players, quiz_id, players)
             /\ out' = <<Msg(ToRoom(quiz_id), "player_list",
                             [players |-> PlayerList(players)])>>
             /\ UNCHANGED <<live_scores, live_quiz_state, quizzes, results,
                            tasks>>
    ELSE /\ out' = <<>>
         /\ UNCHANGED <<live_players, live_scores, live_quiz_state, quizzes,
                        results, tasks>>

KickPlayer(sid, quiz_id, master_id, target_user_id) ==
    IF quiz_id = Missing \/ master_id = Missing \/ target_user_id = Missing
    THEN /\ out' = <<ErrorMsg(sid, "Missing data")>>
         /\ UNCHANGED <<live_players, live_scores, live_quiz_state, quizzes,
                        results, tasks>>
    ELSE IF ~IsMaster(quiz_id, master_id)
    THEN /\ out' = <<ErrorMsg(sid, "Only the quiz master can kick players")>>
         /\ UNCHANGED <<live_players, live_scores, live_quiz_state, quizzes,
                        results, tasks>>
    ELSE IF Has(PlayersOf(quiz_id), target_user_id)
    THEN LET info == Get(PlayersOf(quiz_id), target_user_id)
             players == Del(PlayersOf(quiz_id), target_user_id)
             scored == Has(ScoresOf(quiz_id), target_user_id)
         IN  /\ live_players' = Put(live_players, quiz_id, players)
             /\ live_scores' =
                 IF scored
                 THEN Put(live_scores, quiz_id,
                          Del(ScoresOf(quiz_id), target_user_id))
                 ELSE live_scores
             /\ tasks' = IF scored
                         THEN OnScoreDel(tasks, quiz_id, target_user_id)
                         ELSE tasks
             /\ out' = << Msg(ToSid(info.sid), "kicked",
                              [message |-> "You have been removed from this quiz"]),
                          Msg(ToRoom(quiz_id), "player_list",
                              [players |-> PlayerList(players)]),
                          Msg(ToRoom(quiz_id), "player_kicked",
                              [username |-> info.username]) >>
             /\ UNCHANGED <<live_quiz_state, quizzes, results>>
    ELSE /\ out' = <<>>
         /\ UNCHANGED <<live_players, live_scores, live_quiz_state, quizzes,
                        results, tasks>>

\* As AlreadyStarted, with the check left out.
AlreadyStartedNever(quiz_id) == FALSE

\* The check "if state.get('started')" of handle_start_quiz.
AlreadyStarted(quiz_id) == StartedOf(quiz_id)

StartQuiz(sid, quiz_id, user_id) ==
    IF quiz_id = Missing \/ user_id = Missing
    THEN /\ out' = <<ErrorMsg(sid, "Missing data")>>
         /\ UNCHANGED <<live_players, live_scores, live_quiz_state, quizzes,
                        results, tasks>>
    ELSE IF ~IsMaster(quiz_id, user_id)
    THEN /\ out' = <<ErrorMsg(sid, "Only the quiz master can start the quiz")>>
         /\ UNCHANGED <<live_players, live_scores, live_quiz_state, quizzes,
                        results, tasks>>
    ELSE IF AlreadyStarted(quiz_id)
    THEN /\ out' = <<ErrorMsg(sid, "Quiz already started")>>
         /\ UNCHANGED <<live_players, live_scores, live_quiz_state, quizzes,
                        results, tasks>>
    ELSE /\ Len(tasks) < MaxStarts
         /\ live_quiz_state' =
             Put(live_quiz_state, quiz_id,
                 [Get(live_quiz_state, quiz_id) EXCEPT
                     !.started = TRUE, !.current_question = 0])
         /\ out' = <<Msg(ToRoom(quiz_id), "quiz_started",
                         [quiz_id |-> quiz_id, message |-> "Quiz is starting!"])>>
         /\ tasks' = Append(tasks, NewTask(quiz_id))
         /\ UNCHANGED <<live_players, live_scores, quizzes, results>>

\* ------------------------------------------------------------- answers
\* As IsCorrect, but every type is compared without regard to case.
IsCorrectIgnoringCase(q_type, correct_answer, answer) ==
    Lower(Strip(answer)) = Lower(Strip(correct_answer))

\* The type-specific comparison of handle_submit_answer.
IsCorrect(q_type, correct_answer, answer) ==
    IF q_type = "tf"
    THEN Upper(Strip(correct_answer)) = Upper(Strip(answer))
    ELSE IF q_type = "mcq"
    THEN Strip(correct_answer) = Strip(answer)
    ELSE IF q_type = "short"
    THEN Lower(Strip(answer)) = Lower(Strip(correct_answer))
    ELSE FALSE

RECURSIVE InsertDescUnstable(_, _)
\* As InsertDesc, but item e goes before the items of equal score.
InsertDescUnstable(sorted, e) ==
    IF sorted = <<>> THEN <<e>>
    ELSE IF Head(sorted)[2] > e[2]
    THEN <<Head(sorted)>> \o InsertDescUnstable(Tail(sorted), e)
    ELSE <<e>> \o sorted

RECURSIVE InsertDesc(_, _)
\* Places item e behind every item whose score is at least its own.
InsertDesc(sorted, e) ==
    IF sorted = <<>> THEN <<e>>
    ELSE IF Head(sorted)[2] >= e[2]
    THEN <<Head(sorted)>> \o InsertDesc(Tail(sorted), e)
    ELSE <<e>> \o sorted

RECURSIVE SortedDesc(_)
\* sorted(items, key=lambda x: x[1], reverse=True): stable, so items of equal
\* score keep the order they have in the dict.
SortedDesc(items) ==
    IF items = <<>> THEN <<>>
    ELSE InsertDesc(SortedDesc(SubSeq(items, 1, Len(items) - 1)),
                    items[Len(items)])

\* players.get(uid, {}).get('username', 'Unknown')
UsernameIn(players, uid) ==
    IF Has(players, uid) THEN Get(players, uid).username ELSE "Unknown"

LeaderboardSize == 10

\* The live_leaderboard payload: leaderboard[:10].
Leaderboard(scores, players) ==
    LET all == SortedDesc(scores)
        board == [i \in 1..Len(all) |->
                    [user_id |-> all[i][1],
                     username |-> UsernameIn(players, all[i][1]),
                     score |-> all[i][2]]]
    IN  SubSeq(board, 1, IF Len(board) < LeaderboardSize
                         THEN Len(board) ELSE LeaderboardSize)

\* As Awarded, but only a participant who has no points yet is credited.
AwardedOnce(before, is_correct, points) ==
    IF is_correct /\ before = 0 THEN points ELSE before

\* As Awarded, but a wrong answer resets the score.
AwardedOrReset(before, is_correct, points) ==
    IF is_correct THEN before + points ELSE 0

\* "if is_correct: live_scores[quiz_id][user_id] += points"
Awarded(before, is_correct, points) ==
    IF is_correct THEN before + points ELSE before

\* As HasIndex, but by the truth value of question_index, which 0 fails.
HasIndexTruthy(has_index, question_index) == has_index /\ question_index # 0

\* "question_index is not None"
HasIndex(has_index, question_index) == has_index

SubmitAnswer(sid, quiz_id, user_id, has_index, question_index, answer) ==
    IF quiz_id = Missing \/ user_id = Missing
       \/ ~HasIndex(has_index, question_index)
    THEN /\ out' = <<ErrorMsg(sid, "Missing data")>>
         /\ UNCHANGED <<live_players, live_scores, live_quiz_state, quizzes,
                        results, tasks>>
    ELSE IF ~Has(quizzes, quiz_id)
    THEN /\ out' = <<ErrorMsg(sid, "Quiz not found")>>
         /\ UNCHANGED <<live_players, live_scores, live_quiz_state, quizzes,
                        results, tasks>>
    ELSE IF question_index < 0
            \/ question_index >= Len(Get(quizzes, quiz_id).questions)
    THEN /\ out' = <<ErrorMsg(sid, "Invalid question index")>>
         /\ UNCHANGED <<live_players, live_scores, live_quiz_state, quizzes,
                        results, tasks>>
    ELSE LET question == Get(quizzes, quiz_id).questions[question_index + 1]
             points == PointsOf(question)
             is_correct == IsCorrect(question.type, question.answer, answer)
             known == Has(ScoresOf(quiz_id), user_id)
             before == IF known THEN Get(ScoresOf(quiz_id), user_id) ELSE 0
             after == Awarded(before, is_correct, points)
             scores == Put(ScoresOf(quiz_id), user_id, after)
         IN  /\ UNCHANGED <<live_players, live_quiz_state, quizzes, results>>
             /\ after <= MaxScore
             /\ live_scores' = Put(live_scores, quiz_id, scores)
             /\ tasks' = IF known THEN tasks
                         ELSE OnScoreAdd(tasks, quiz_id, user_id)
             /\ out' = << Msg(ToSid(sid), "score_update",
                              [user_id |-> user_id, score |-> after,
                               correct |-> is_correct,
                               points_earned |->
                                   IF is_correct THEN points ELSE 0]),
                          Msg(ToRoom(quiz_id), "live_leaderboard",
                              [leaderboard |->
                                  Leaderboard(scores, PlayersOf(quiz_id))]) >>

\* ------------------------------------------------------------- results
\* round(x, 1) for x = num / den >= 0, in tenths: to the nearest tenth, a tie
\* going to the even one.
RoundTenths(num, den) ==
    LET n == num * 10
        fl == n \div den
        twice == 2 * (n - fl * den)
    IN  IF twice > den \/ (twice = den /\ fl % 2 = 1) THEN fl + 1 ELSE fl

\* As SumPoints, but counting the questions, one point each.
SumPointsCounting(questions) == Len(questions)

RECURSIVE SumPoints(_)
\* sum(q.get('points', 1) for q in quiz.get('questions', []))
SumPoints(questions) ==
    IF questions = <<>> THEN 0
    ELSE PointsOf(Head(questions)) + SumPoints(Tail(questions))

TotalPossible(quiz) == SumPoints(quiz.questions)

\* The document save_live_quiz_results builds for one item of scores.
ResultDoc(quiz_id, quiz, user_id, score, players, total_possible) ==
    [quiz_id |-> quiz_id, quiz_title |-> quiz.title, student_id |-> user_id,
     student_name |-> UsernameIn(players, user_id), score |-> score,
     total_possible |-> total_possible,
     percentage_tenths |->
        IF total_possible > 0 THEN RoundTenths(score * 100, total_possible)
        ELSE 0,
     mode |-> "live_arena"]

\* The dicts a task in save_live_quiz_results refers to as scores and players.
ScoresRef(t) == IF t.scoresLive THEN ScoresOf(t.quiz_id) ELSE t.scoresOld
PlayersRef(t) == IF t.playersLive THEN PlayersOf(t.quiz_id) ELSE t.playersOld

\* One step of "for user_id, score in scores.items()" up to the next
\* insert_one, or to the end of save_live_quiz_results.  The view iterator
\* (CPython 3.8 and later) raises RuntimeError when the dict's size is not the
\* one it started with, or when it finds an item after it has produced as
\* many as the dict had; nothing catches it, so the task ends there, before
\* the clean-up.  The result is the task and whether the clean-up ran.
SaveNext(t) ==
    IF t.used # Len(ScoresRef(t))
    THEN [task |-> Ended(t, "failed"), purge |-> FALSE]
    ELSE IF t.rest = <<>>
    THEN [task |-> Ended(t, "done"), purge |-> TRUE]
    ELSE IF t.left = 0
    THEN [task |-> Ended(t, "failed"), purge |-> FALSE]
    ELSE [task |-> [t EXCEPT
                      !.pc = "insert",
                      !.rest = Tail(@),
                      !.left = @ - 1,
                      !.doc = ResultDoc(t.quiz_id, t.quiz, Head(t.rest),
                                        Get(ScoresRef(t), Head(t.rest)),
                                        PlayersRef(t), t.total)],
          purge |-> FALSE]

\* save_live_quiz_results from its first line to its first insert_one, or to
\* its early return when scores is empty.
SaveBegin(t) ==
    IF ScoresOf(t.quiz_id) = <<>>
    THEN [task |-> Ended(t, "returned"), purge |-> FALSE]
    ELSE SaveNext([t EXCEPT
                     !.scoresLive = TRUE,
                     !.playersLive = Has(live_players, t.quiz_id),
                     !.total = TotalPossible(t.quiz),
                     !.used = Len(ScoresOf(t.quiz_id)),
                     !.left = Len(ScoresOf(t.quiz_id)),
                     !.rest = Keys(ScoresOf(t.quiz_id))])

\* The three "if quiz_id in ...: del ..." that end save_live_quiz_results.
Purged(d, quiz_id) == IF Has(d, quiz_id) THEN Del(d, quiz_id) ELSE d

\* ------------------------------------------------------------- task steps
\* quizzes_col.find_one returns in send_questions_task.
TaskFetch(i) ==
    /\ tasks[i].pc = "fetch"
    /\ tasks' = [tasks EXCEPT ![i] =
                    IF Has(quizzes, tasks[i].quiz_id)
                    THEN [tasks[i] EXCEPT
                            !.pc = "loop", !.idx = 0,
                            !.quiz = Get(quizzes, tasks[i].quiz_id)]
                    ELSE Ended(tasks[i], "returned")]
    /\ out' = <<>>
    /\ UNCHANGED <<live_players, live_scores, live_quiz_state, quizzes,
                   results>>

\* The loop goes on: there is a question left and the quiz is still started.
GoesOn(t) == t.idx < Len(t.quiz.questions) /\ StartedOf(t.quiz_id)

\* As QuestionData, with the question's answer left in the payload.
QuestionDataWithAnswer(question, idx, total) ==
    [index |-> idx, total |-> total, text |-> question.text,
     type |-> question.type, points |-> PointsOf(question),
     time_limit |-> TimeOf(question), answer |-> question.answer]

\* question_data of send_questions_task: the new_question payload.
QuestionData(question, idx, total) ==
    LET base == [index |-> idx, total |-> total,
                 text |-> question.text, type |-> question.type,
                 points |-> PointsOf(question),
                 time_limit |-> TimeOf(question)]
    IN  IF question.type = "mcq"
        THEN base @@ [options |->
                        IF "options" \in DOMAIN question
                        THEN question.options ELSE <<>>]
        ELSE base

\* A sleep before a question ends and the question is sent.
TaskQuestion(i) ==
    LET t == tasks[i]
        question == t.quiz.questions[t.idx + 1]
        question_data == QuestionData(question, t.idx, Len(t.quiz.questions))
    IN  /\ t.pc = "loop"
        /\ GoesOn(t)
        /\ live_quiz_state' =
            Put(live_quiz_state, t.quiz_id,
                [Get(live_quiz_state, t.quiz_id) EXCEPT
                    !.current_question = t.idx])
        /\ out' = <<Msg(ToRoom(t.quiz_id), "new_question", question_data)>>
        /\ tasks' = [tasks EXCEPT
                        ![i].pc = "asking",
                        ![i].sent = Append(@, <<"new_question", t.idx>>)]
        /\ UNCHANGED <<live_players, live_scores, quizzes, results>>

\* As TaskTimeUp, but the loop stays at the same index.
TaskTimeUpRepeating(i) ==
    LET t == tasks[i]
        question == t.quiz.questions[t.idx + 1]
    IN  /\ t.pc = "asking"
        /\ out' = <<Msg(ToRoom(t.quiz_id), "question_time_up",
                        [index |-> t.idx, correct_answer |-> question.answer,
                         question_type |-> question.type])>>
        /\ tasks' = [tasks EXCEPT
                        ![i].pc = "loop",
                        ![i].sent = Append(@, <<"question_time_up", t.idx>>)]
        /\ UNCHANGED <<live_players, live_scores, live_quiz_state, quizzes,
                       results>>

\* The question's time is up: the answer is revealed.
TaskTimeUp(i) ==
    LET t == tasks[i]
        question == t.quiz.questions[t.idx + 1]
    IN  /\ t.pc = "asking"
        /\ out' = <<Msg(ToRoom(t.quiz_id), "question_time_up",
                        [index |-> t.idx, correct_answer |-> question.answer,
                         question_type |-> question.type])>>
        /\ tasks' = [tasks EXCEPT
                        ![i].pc = "loop", ![i].idx = t.idx + 1,
                        ![i].sent = Append(@, <<"question_time_up", t.idx>>)]
        /\ UNCHANGED <<live_players, live_scores, live_quiz_state, quizzes,
                       results>>

\* What a step of save_live_quiz_results ending in r leaves in the globals.
AfterSave(i, r, quiz_state) ==
    LET q == tasks[i].quiz_id
        others == IF r.purge THEN OnPurge(tasks, q) ELSE tasks
    IN  /\ tasks' = [others EXCEPT ![i] = r.task]
        /\ live_players' = IF r.purge THEN Purged(live_players, q)
                           ELSE live_players
        /\ live_scores' = IF r.purge THEN Purged(live_scores, q)
                          ELSE live_scores
        /\ live_quiz_state' = IF r.purge THEN Purged(quiz_state, q)
                              ELSE quiz_state

\* As MarkStopped, with setdefault in place of the "if quiz_id in
\* live_quiz_state" guard: a session that is no longer there is created anew.
MarkStoppedUnguarded(quiz_id) ==
    IF Has(live_quiz_state, quiz_id)
    THEN Put(live_quiz_state, quiz_id,
             [Get(live_quiz_state, quiz_id) EXCEPT !.started = FALSE])
    ELSE Put(live_quiz_state, quiz_id,
             [started |-> FALSE, current_question |-> 0, master_id |-> NoMaster])

\* "if quiz_id in live_quiz_state: live_quiz_state[quiz_id]['started'] = False"
MarkStopped(quiz_id) ==
    IF Has(live_quiz_state, quiz_id)
    THEN Put(live_quiz_state, quiz_id,
             [Get(live_quiz_state, quiz_id) EXCEPT !.started = FALSE])
    ELSE live_quiz_state

\* The loop is over (no question left, or the quiz no longer started): the
\* quiz is marked stopped, quiz_ended is sent, save_live_quiz_results begins.
TaskFinish(i) ==
    LET t == tasks[i]
        stopped == MarkStopped(t.quiz_id)
    IN  /\ t.pc = "loop"
        /\ ~GoesOn(t)
        /\ out' = <<Msg(ToRoom(t.quiz_id), "quiz_ended",
                        [quiz_id |-> t.quiz_id])>>
        /\ AfterSave(i, SaveBegin([t EXCEPT
                                      !.sent = Append(@, <<"quiz_ended", t.idx>>)]),
                     stopped)
        /\ UNCHANGED <<quizzes, results>>

\* insert_one returns (ok) or raises (~ok, caught and logged); the loop of
\* save_live_quiz_results goes on to the next insert_one or to the clean-up.
TaskInsert(i, ok) ==
    LET t == tasks[i]
    IN  /\ t.pc = "insert"
        /\ results' = IF ok THEN Append(results, t.doc) ELSE results
        /\ out' = <<>>
        /\ AfterSave(i, SaveNext([t EXCEPT !.tried =
                                     Append(@, <<t.doc.student_id, ok>>)]),
                     live_quiz_state)
        /\ UNCHANGED <<quizzes>>

\* ------------------------------------------------------------- quiz store
\* edit_quiz by the quiz's creator: $set of title and questions.
EditQuiz(quiz_id) ==
    /\ Has(quizzes, quiz_id)
    /\ quizzes' = Put(quizzes, quiz_id,
                      [QuizEdited EXCEPT
                          !.createdBy = Get(quizzes, quiz_id).createdBy])
    /\ out' = <<>>
    /\ UNCHANGED <<live_players, live_scores, live_quiz_state, results, tasks>>

\* delete_quiz by the quiz's creator.
DeleteQuiz(quiz_id) ==
    /\ Has(quizzes, quiz_id)
    /\ quizzes' = Del(quizzes, quiz_id)
    /\ out' = <<>>
    /\ UNCHANGED <<live_players, live_scores, live_quiz_state, results, tasks>>

\* ------------------------------------------------------------- system
\* The requests the clients send: every well-formed one over the inputs
\* above, and one of each malformed kind.  The connection a request comes
\* from matters to the state only for join_lobby and disconnect; the other
\* requests come from connection "s1".
JoinRequests ==
    {[sid |-> s, quiz_id |-> q, user_id |-> u, username |-> NameOf(u)] :
        s \in Sids, q \in QuizIds, u \in Players}
    \cup {[sid |-> "s1", quiz_id |-> Missing, user_id |-> "u1", username |-> "ann"],
          [sid |-> "s1", quiz_id |-> "q1", user_id |-> Missing, username |-> "ann"],
          [sid |-> "s1", quiz_id |-> "q1", user_id |-> "u1", username |-> Missing]}

LeaveRequests ==
    {[sid |-> "s1", quiz_id |-> q, user_id |-> u] :
        q \in QuizIds, u \in Players}
    \cup {[sid |-> "s1", quiz_id |-> "q1", user_id |-> Missing]}

KickRequests ==
    {[sid |-> "s1", quiz_id |-> q, master_id |-> m, target_user_id |-> u] :
        q \in QuizIds, m \in Requesters, u \in Players}
    \cup {[sid |-> "s1", quiz_id |-> "q1", master_id |-> Master,
           target_user_id |-> Missing]}

StartRequests ==
    {[sid |-> "s1", quiz_id |-> q, user_id |-> u] :
        q \in QuizIds, u \in Requesters}
    \cup {[sid |-> "s1", quiz_id |-> "q1", user_id |-> Missing]}

\* question_index is an integer or absent (has_index false).
Indices == {-1, 0, 1, 2}
SubmitRequests ==
    {[sid |-> "s1", quiz_id |-> q, user_id |-> u, has_index |-> TRUE,
      question_index |-> x, answer |-> a] :
        q \in QuizIds, u \in Players, x \in {0, 1}, a \in Answers}
    \cup {[sid |-> "s1", quiz_id |-> "q1", user_id |-> "u1", has_index |-> TRUE,
           question_index |-> x, answer |-> Paris] : x \in Indices}
    \cup {[sid |-> "s1", quiz_id |-> "q1", user_id |-> "u1", has_index |-> FALSE,
           question_index |-> 0, answer |-> Paris],
          [sid |-> "s1", quiz_id |-> "q1", user_id |-> Missing, has_index |-> TRUE,
           question_index |-> 0, answer |-> Paris],
          [sid |-> "s1", quiz_id |-> Missing, user_id |-> "u1", has_index |-> TRUE,
           question_index |-> 0, answer |-> Paris]}

\* A client request is served.
Served == events < MaxEvents /\ events' = events + 1

Next ==
    \/ \E q \in QuizIds : Served /\ Lobby(q)
    \/ \E s \in Sids : Served /\ Disconnect(s)
    \/ \E r \in JoinRequests :
          Served /\ JoinLobby(r.sid, r.quiz_id, r.user_id, r.username)
    \/ \E r \in LeaveRequests :
          Served /\ LeaveLobby(r.sid, r.quiz_id, r.user_id)
    \/ \E r \in KickRequests :
          Served /\ KickPlayer(r.sid, r.quiz_id, r.master_id, r.target_user_id)
    \/ \E r \in StartRequests :
          Served /\ StartQuiz(r.sid, r.quiz_id, r.user_id)
    \/ \E r \in SubmitRequests :
          Served /\ SubmitAnswer(r.sid, r.quiz_id, r.user_id, r.has_index,
                                 r.question_index, r.answer)
    \/ \E q \in QuizIds : Served /\ EditQuiz(q)
    \/ \E q \in QuizIds : Served /\ DeleteQuiz(q)
    \/ \E i \in 1..Len(tasks) : TaskFetch(i) /\ UNCHANGED events
    \/ \E i \in 1..Len(tasks) : TaskQuestion(i) /\ UNCHANGED events
    \/ \E i \in 1..Len(tasks) : TaskTimeUp(i) /\ UNCHANGED events
    \/ \E i \in 1..Len(tasks) : TaskFinish(i) /\ UNCHANGED events
    \/ \E i \in 1..Len(tasks), ok \in BOOLEAN :
          TaskInsert(i, ok) /\ UNCHANGED events

Spec == Init /\ [][Next]_vars

\* The background tasks and the MongoDB round trips they wait for always
\* come back: socketio.sleep ends, find_one and insert_one return or raise.
TaskStep ==
    \E i \in 1..Len(tasks) :
        /\ \/ TaskFetch(i) \/ TaskQuestion(i) \/ TaskTimeUp(i) \/ TaskFinish(i)
           \/ \E ok \in BOOLEAN : TaskInsert(i, ok)
        /\ UNCHANGED events

FairSpec == Spec /\ WF_vars(TaskStep)

\* ------------------------------------------------------------- properties
\* No entry for the quiz is left in any of the three dictionaries.
NothingLeft(lp, ls, lqs, quiz_id) ==
    ~Has(lp, quiz_id) /\ ~Has(ls, quiz_id) /\ ~Has(lqs, quiz_id)

ScoreValues(scores) == {scores[k][2] : k \in 1..Len(scores)}

\* C1: at the step where a task's question loop is over and
\* save_live_quiz_results reads live_scores, no participant's score exceeds
\* the quiz's total possible points.
C1_ScoresWithinTotal ==
    [][\A i \in 1..Len(tasks) :
          TaskFinish(i) =>
              \A v \in ScoreValues(ScoresOf(tasks[i].quiz_id)) :
                  v <= TotalPossible(tasks[i].quiz)]_vars

\* The run of save_live_quiz_results by task i ends in this step, by the
\* clean-up or by an exception.
SaveEnds(i, ok) == TaskInsert(i, ok) /\ tasks'[i].pc # "insert"

\* The items that run went through, the last one included.
Attempts(i, ok) == Append(tasks[i].tried, <<tasks[i].doc.student_id, ok>>)

Times(seq, user_id) == Cardinality({k \in 1..Len(seq) : seq[k][1] = user_id})

\* No quiz session has been cleaned up yet: every session object is still
\* the one its quiz's first lobby access created.
NeverPurged == \A i \in 1..Len(tasks) : tasks[i].pc # "done"

\* C2: when a run of save_live_quiz_results ends and all its inserts
\* succeeded, every participant with a score entry got exactly one result
\* record from it; and while a session object lives, no participant has more
\* than one result record.
C2_OneRecordEach ==
    /\ [][\A i \in 1..Len(tasks), ok \in BOOLEAN :
            (SaveEnds(i, ok) /\ \A k \in 1..Len(Attempts(i, ok)) :
                                    Attempts(i, ok)[k][2])
            => \A u \in Players :
                  Has(ScoresRef(tasks[i]), u) => Times(Attempts(i, ok), u) = 1]_vars
    /\ [](NeverPurged =>
            \A a, b \in 1..Len(results) :
                a # b => results[a].student_id # results[b].student_id)

\* C3: once a quiz is started, its session is eventually taken out of all
\* three dictionaries (the tasks' steps being weakly fair).
C3_StartedLeadsToPurged ==
    \A q \in QuizIds :
        StartedOf(q) ~> NothingLeft(live_players, live_scores, live_quiz_state, q)

\* C4: save_live_quiz_results on an empty score ledger writes nothing and
\* leaves no entry for the quiz in the three dictionaries.
C4_EmptyLedgerPurged ==
    [][\A i \in 1..Len(tasks) :
          (TaskFinish(i) /\ ScoresOf(tasks[i].quiz_id) = <<>>)
          => /\ results' = results
             /\ NothingLeft(live_players', live_scores', live_quiz_state',
                            tasks[i].quiz_id)]_vars

\* C5: when a run of save_live_quiz_results in which an insert failed ends,
\* an insert was attempted for every participant with a score entry and no
\* entry for the quiz is left in the three dictionaries.
C5_FailedWritesSkipped ==
    [][\A i \in 1..Len(tasks), ok \in BOOLEAN :
          (SaveEnds(i, ok) /\ \E k \in 1..Len(Attempts(i, ok)) :
                                  ~Attempts(i, ok)[k][2])
          => /\ \A u \in Players :
                   Has(ScoresRef(tasks[i]), u) => Times(Attempts(i, ok), u) >= 1
             /\ NothingLeft(live_players', live_scores', live_quiz_state',
                            tasks[i].quiz_id)]_vars

\* C6: save_live_quiz_results run again on a session that has been saved and
\* cleaned up writes no result record and changes none of the dictionaries.
C6_SecondFinalizeWritesNothing ==
    [][\A i \in 1..Len(tasks) :
          (/\ TaskFinish(i)
           /\ \E j \in 1..Len(tasks) :
                 tasks[j].pc = "done" /\ tasks[j].quiz_id = tasks[i].quiz_id
           /\ NothingLeft(live_players, live_scores, live_quiz_state,
                          tasks[i].quiz_id))
          => /\ results' = results
             /\ UNCHANGED <<live_players, live_scores, live_quiz_state>>
             /\ tasks'[i].pc = "returned"]_vars

C6_Witness ==
    /\ out = <<Msg(ToRoom("q1"), "quiz_ended", [quiz_id |-> "q1"])>>
    /\ Len(tasks) = 2
    /\ tasks[1].pc = "done"
    /\ tasks[2].pc = "returned"
    /\ results # <<>>
    /\ NothingLeft(live_players, live_scores, live_quiz_state, "q1")

\* The session object of the quiz has run and ended: it was started, its
\* task has marked it stopped, and it has not been cleaned up since.
EndedPhase(quiz_id) ==
    /\ NeverPurged
    /\ Has(live_quiz_state, quiz_id)
    /\ ~StartedOf(quiz_id)
    /\ \E i \in 1..Len(tasks) :
          tasks[i].quiz_id = quiz_id
          /\ tasks[i].pc \in {"insert", "returned", "failed"}

\* C7: a start request on a session object that has ended fails with
\* "already started" and the object never becomes started again.
C7_EndedIsTerminal ==
    [][\A r \in StartRequests :
          (EndedPhase(r.quiz_id) /\ r.user_id = MasterOf(r.quiz_id)
           /\ StartQuiz(r.sid, r.quiz_id, r.user_id))
          => /\ out' = <<ErrorMsg(r.sid, "Quiz already started")>>
             /\ ~StartedOf(r.quiz_id)']_vars

\* C8: a start request by the master while the quiz is started is answered
\* with "already started" to the requester alone; the session state is
\* unchanged, nothing is sent to the room and no task is spawned.
C8_StartWhileRunningRejected ==
    [][\A r \in StartRequests :
          (StartedOf(r.quiz_id) /\ r.user_id = MasterOf(r.quiz_id)
           /\ StartQuiz(r.sid, r.quiz_id, r.user_id))
          => /\ out' = <<ErrorMsg(r.sid, "Quiz already started")>>
             /\ UNCHANGED <<live_quiz_state, tasks, live_players, live_scores>>]_vars

C8_Witness ==
    /\ out = <<ErrorMsg("s1", "Quiz already started")>>
    /\ StartedOf("q1")
    /\ Len(tasks) = 1
    /\ tasks[1].pc = "asking"

\* C9: a start request from anyone but the session's master, or for a quiz id
\* without a session object, is answered with "only the quiz master" to the
\* requester alone, changes nothing and spawns no task; and a session becomes
\* started only by a start request from its master.
C9_OnlyMasterStarts ==
    [][/\ \A r \in StartRequests :
            (r.user_id # Missing /\ r.user_id # MasterOf(r.quiz_id)
             /\ StartQuiz(r.sid, r.quiz_id, r.user_id))
            => /\ out' = <<ErrorMsg(r.sid, "Only the quiz master can start the quiz")>>
               /\ UNCHANGED <<live_quiz_state, tasks, live_players, live_scores>>
       /\ \A q \in QuizIds :
            (~StartedOf(q) /\ StartedOf(q)')
            => \E r \in StartRequests :
                  /\ r.quiz_id = q
                  /\ r.user_id = MasterOf(q)
                  /\ StartQuiz(r.sid, r.quiz_id, r.user_id)
                  /\ Len(tasks') = Len(tasks) + 1]_vars

\* A non-master's start request was refused while a start by the master
\* would have succeeded.
C9_Witness ==
    /\ out = <<ErrorMsg("s1", "Only the quiz master can start the quiz")>>
    /\ Has(live_quiz_state, "q1")
    /\ ~StartedOf("q1")
    /\ Has(PlayersOf("q1"), "u1")
    /\ tasks = <<>>

\* C10: a well-formed kick request from anyone but the session's master is
\* answered with "only the quiz master" to the requester alone and changes
\* neither live_players nor live_scores.
C10_KickByNonMasterRejected ==
    [][\A r \in KickRequests :
          (r.target_user_id # Missing /\ r.master_id # MasterOf(r.quiz_id)
           /\ KickPlayer(r.sid, r.quiz_id, r.master_id, r.target_user_id))
          => /\ out' = <<ErrorMsg(r.sid, "Only the quiz master can kick players")>>
             /\ UNCHANGED <<live_players, live_scores, live_quiz_state, tasks>>]_vars

\* A player's kick request was refused while both players were in the lobby
\* with score entries.
C10_Witness ==
    /\ out = <<ErrorMsg("s1", "Only the quiz master can kick players")>>
    /\ Has(live_quiz_state, "q1")
    /\ Has(PlayersOf("q1"), "u1") /\ Has(PlayersOf("q1"), "u2")
    /\ Has(ScoresOf("q1"), "u1") /\ Has(ScoresOf("q1"), "u2")

\* C11: after a well-formed kick request by the session's master, the target
\* has no entry in the session's live_players and no entry in its
\* live_scores, whether or not the target was present before the kick.
C11_KickRemovesBoth ==
    [][\A r \in KickRequests :
          (r.target_user_id # Missing /\ r.master_id = MasterOf(r.quiz_id)
           /\ KickPlayer(r.sid, r.quiz_id, r.master_id, r.target_user_id))
          => /\ ~Has(PlayersOf(r.quiz_id)', r.target_user_id)
             /\ ~Has(ScoresOf(r.quiz_id)', r.target_user_id)]_vars

\* The score a participant holds in a quiz's ledger, 0 without an entry.
ScoreHeld(quiz_id, user_id) ==
    IF Has(ScoresOf(quiz_id), user_id)
    THEN Get(ScoresOf(quiz_id), user_id)
    ELSE 0

\* C12: a join by a participant who already has an entry in live_players
\* sets that entry's sid to the requesting connection, keeps the
\* participant's score, answers "joined" with is_rejoin true and
\* current_score equal to that score, and leaves exactly one entry for the
\* participant in live_players and in the player_list broadcast.
C12_RejoinKeepsScoreAndRoster ==
    [][\A r \in JoinRequests :
          (/\ r.quiz_id # Missing /\ r.user_id # Missing /\ r.username # Missing
           /\ Has(PlayersOf(r.quiz_id), r.user_id)
           /\ JoinLobby(r.sid, r.quiz_id, r.user_id, r.username))
          => /\ Get(PlayersOf(r.quiz_id)', r.user_id).sid = r.sid
             /\ ScoreHeld(r.quiz_id, r.user_id)' = ScoreHeld(r.quiz_id, r.user_id)
             /\ Len(out') = 2
             /\ out'[2].to = ToSid(r.sid)
             /\ out'[2].ev = "joined"
             /\ out'[2].data.is_rejoin
             /\ out'[2].data.current_score = ScoreHeld(r.quiz_id, r.user_id)
             /\ Times(PlayersOf(r.quiz_id)', r.user_id) = 1
             /\ Cardinality({k \in 1..Len(out'[1].data.players) :
                    out'[1].data.players[k].user_id = r.user_id}) = 1]_vars

\* u1, who joined from connection s1 and has scored 10, has rejoined from
\* connection s2.
C12_Witness ==
    /\ Len(out) = 2
    /\ out[2] = Msg(ToSid("s2"), "joined",
                    [quiz_id |-> "q1", is_rejoin |-> TRUE,
                     quiz_started |-> FALSE, current_score |-> 10])
    /\ Get(PlayersOf("q1"), "u1").sid = "s2"
    /\ Get(ScoresOf("q1"), "u1") = 10

\* Dict d is dict e with some entries removed: the remaining items are
\* unchanged and in the same order.
RECURSIVE SubDict(_, _)
SubDict(d, e) ==
    IF d = <<>> THEN TRUE
    ELSE IF e = <<>> THEN FALSE
    ELSE IF Head(d) = Head(e) THEN SubDict(Tail(d), Tail(e))
    ELSE SubDict(d, Tail(e))

OnlyPresenceRemoved ==
    /\ UNCHANGED <<live_scores, live_quiz_state, results, tasks>>
    /\ Keys(live_players') = Keys(live_players)
    /\ \A q \in QuizIds : SubDict(PlayersOf(q)', PlayersOf(q))

\* C13: leave_lobby and disconnect remove entries of live_players only and
\* leave live_scores unchanged; and a join by a participant who is not
\* present answers "joined" with current_score equal to the score that
\* participant's ledger entry holds, which the join leaves as it is.
C13_LeaveKeepsScore ==
    [][/\ \A r \in LeaveRequests :
            LeaveLobby(r.sid, r.quiz_id, r.user_id) => OnlyPresenceRemoved
       /\ \A s \in Sids : Disconnect(s) => OnlyPresenceRemoved
       /\ \A r \in JoinRequests :
            (/\ r.quiz_id # Missing /\ r.user_id # Missing /\ r.username # Missing
             /\ ~Has(PlayersOf(r.quiz_id), r.user_id)
             /\ JoinLobby(r.sid, r.quiz_id, r.user_id, r.username))
            => /\ out'[2].ev = "joined"
               /\ out'[2].data.current_score = ScoreHeld(r.quiz_id, r.user_id)
               /\ ScoreHeld(r.quiz_id, r.user_id)' = ScoreHeld(r.quiz_id, r.user_id)]_vars

\* u1 has just left or lost the connection: the room was sent the roster
\* without u1, and u1's 10 points are still in the ledger.
C13_Witness ==
    /\ out = <<Msg(ToRoom("q1"), "player_list",
                   [players |-> <<[user_id |-> "u2", username |-> "bob"]>>])>>
    /\ Keys(PlayersOf("q1")) = <<"u2">>
    /\ Keys(ScoresOf("q1")) = <<"u1", "u2">>
    /\ Get(ScoresOf("q1"), "u1") = 10

\* The session's whole ledger leaves live_scores: the clean-up at the end of
\* save_live_quiz_results.
Finalized(quiz_id) == Has(live_scores, quiz_id) /\ ~Has(live_scores', quiz_id)

\* The participant's entry is there after the step and holds no less.
ScoreKept(quiz_id, user_id) ==
    /\ Has(ScoresOf(quiz_id)', user_id)
    /\ Get(ScoresOf(quiz_id)', user_id) >= Get(ScoresOf(quiz_id), user_id)

\* The step is a kick of the present participant by the session's master.
KickedNow(quiz_id, user_id) ==
    \E r \in KickRequests :
        /\ r.quiz_id = quiz_id
        /\ r.target_user_id = user_id
        /\ r.master_id = MasterOf(quiz_id)
        /\ Has(PlayersOf(quiz_id), user_id)
        /\ KickPlayer(r.sid, r.quiz_id, r.master_id, r.target_user_id)

\* C14: in every step, a participant's score entry stays and its value does
\* not decrease, unless the step is the clean-up that finalizes the session.
C14_ScoreNeverDecreases ==
    [][\A q \in QuizIds, u \in Players :
          Has(ScoresOf(q), u) => (ScoreKept(q, u) \/ Finalized(q))]_vars

\* C14, amended: in every step, a participant's score entry stays and its
\* value does not decrease, unless the step is the clean-up that finalizes
\* the session or a kick of that participant, present in the lobby, by the
\* session's master.
C14_ScoreLostOnlyByKick ==
    [][\A q \in QuizIds, u \in Players :
          Has(ScoresOf(q), u)
          => (ScoreKept(q, u) \/ Finalized(q) \/ KickedNow(q, u))]_vars

\* u1 has just been kicked and has no score entry any more, while u2, still
\* present, keeps 10 points.
C14_Witness ==
    /\ Len(out) = 3
    /\ out[1].ev = "kicked"
    /\ out[3] = Msg(ToRoom("q1"), "player_kicked", [username |-> "ann"])
    /\ Keys(ScoresOf("q1")) = <<"u2">>
    /\ Get(ScoresOf("q1"), "u2") = 10
    /\ Keys(PlayersOf("q1")) = <<"u2">>

\* C15: every step leaves only non-negative integers as scores in
\* live_scores, and a submit_answer step removes no participant's score entry
\* and leaves every participant's score greater than or equal to what it was.
C15_SubmitNeverLowersScore ==
    [][/\ \A q \in QuizIds : \A v \in ScoreValues(ScoresOf(q)') : v \in Nat
       /\ \/ \A q \in QuizIds, u \in Players :
                /\ ScoreHeld(q, u)' >= ScoreHeld(q, u)
                /\ Has(ScoresOf(q), u) => Has(ScoresOf(q)', u)
          \/ ~\E r \in SubmitRequests :
                SubmitAnswer(r.sid, r.quiz_id, r.user_id, r.has_index,
                             r.question_index, r.answer)]_vars

\* u1, at 10 points, has answered the second question correctly (15), and
\* u2's wrong answers have left u2 at 0.
C15_Witness ==
    /\ Len(out) = 2
    /\ out[1] = Msg(ToSid("s1"), "score_update",
                    [user_id |-> "u1", score |-> 15, correct |-> TRUE,
                     points_earned |-> 5])
    /\ Get(ScoresOf("q1"), "u1") = 15
    /\ Has(ScoresOf("q1"), "u2")
    /\ Get(ScoresOf("q1"), "u2") = 0

\* ------------------------------------------------------------- evaluation
\* The answer check on its own: the store holds one single-question quiz of
\* any type with any stored answer, and clients submit any answer to it.
Types == {"tf", "mcq", "short", "essay"}
StoredAnswers == {Paris, ParisPadded, TrueUpper}
SubmittedAnswers == {Paris, ParisLower, ParisPadded, TrueLower, TrueUpper, <<>>}

EvalQuiz(q_type, correct_answer) ==
    [title |-> "Eval", createdBy |-> Master,
     questions |-> <<[type |-> q_type, text |-> "q",
                      answer |-> correct_answer, points |-> 10]>>]

EvalInit ==
    /\ live_players = <<>>
    /\ live_scores = <<>>
    /\ live_quiz_state = <<>>
    /\ \E t \in Types, c \in StoredAnswers :
          quizzes = [i \in 1..1 |-> <<"q1", EvalQuiz(t, c)>>]
    /\ results = <<>>
    /\ tasks = <<>>
    /\ events = 0
    /\ out = <<>>

EvalRequests ==
    {[sid |-> "s1", quiz_id |-> "q1", user_id |-> u, has_index |-> TRUE,
      question_index |-> 0, answer |-> a] :
        u \in Players, a \in SubmittedAnswers}

EvalNext ==
    \E r \in EvalRequests :
        Served /\ SubmitAnswer(r.sid, r.quiz_id, r.user_id, r.has_index,
                               r.question_index, r.answer)

EvalSpec == EvalInit /\ [][EvalNext]_vars

\* Equality of two strings up to the case of their letters.
SameIgnoringCase(s, t) ==
    /\ Len(s) = Len(t)
    /\ \A i \in 1..Len(s) :
          \/ s[i] = t[i]
          \/ UpperChar(s[i]) = t[i]
          \/ s[i] = UpperChar(t[i])

\* The reference rule: on the trimmed answers, true/false and short-answer
\* compare up to case, multiple-choice compares exactly, no other type is
\* ever correct.
Reference(q_type, correct_answer, answer) ==
    LET c == Strip(correct_answer)
        a == Strip(answer)
    IN  CASE q_type = "tf" -> SameIgnoringCase(c, a)
          [] q_type = "mcq" -> c = a
          [] q_type = "short" -> SameIgnoringCase(c, a)
          [] OTHER -> FALSE

\* C16: the verdict of every submit_answer (the "correct" field of
\* score_update, and whether the points are added) is the reference rule
\* applied to the question's type, its stored answer and the submitted
\* answer; in particular 'paris' is wrong for multiple-choice 'Paris' and
\* ' paris ' is right for short-answer 'Paris'.
C16_VerdictIsReference ==
    /\ ~Reference("mcq", Paris, ParisLower)
    /\ Reference("short", Paris, ParisPadded)
    /\ [][\A r \in EvalRequests :
            SubmitAnswer(r.sid, r.quiz_id, r.user_id, r.has_index,
                         r.question_index, r.answer)
            => LET question == Get(quizzes, r.quiz_id).questions[1]
                   verdict == Reference(question.type, question.answer, r.answer)
               IN  /\ out'[1].ev = "score_update"
                   /\ out'[1].data.correct = verdict
                   /\ ScoreHeld(r.quiz_id, r.user_id)' =
                        ScoreHeld(r.quiz_id, r.user_id)
                        + (IF verdict THEN PointsOf(question) ELSE 0)]_vars

\* A short-answer question whose stored answer is 'Paris' has been answered
\* correctly twice by u1 and wrongly by u2.
C16_Witness ==
    /\ Get(quizzes, "q1").questions[1].type = "short"
    /\ Get(quizzes, "q1").questions[1].answer = Paris
    /\ Keys(ScoresOf("q1")) = <<"u1", "u2">>
    /\ Get(ScoresOf("q1"), "u1") = 20
    /\ Get(ScoresOf("q1"), "u2") = 0
    /\ out[1].data.correct

\* C17: a submit_answer without quiz_id, user_id or question_index is
\* answered with "Missing data"; one for a quiz that is not in the store
\* with "Quiz not found"; one whose question_index is outside the quiz's
\* questions with "Invalid question index".  In each case the error is all
\* that is sent and live_scores is unchanged.  A complete request with
\* question_index 0 for a stored quiz is evaluated.
C17_BadSubmitRejected ==
    [][\A r \in SubmitRequests :
          SubmitAnswer(r.sid, r.quiz_id, r.user_id, r.has_index,
                       r.question_index, r.answer)
          => LET missing == \/ r.quiz_id = Missing
                            \/ r.user_id = Missing
                            \/ ~r.has_index
                 unknown == ~Has(quizzes, r.quiz_id)
                 outside ==
                     \/ r.question_index < 0
                     \/ r.question_index >= Len(Get(quizzes, r.quiz_id).questions)
             IN  IF missing
                 THEN /\ out' = <<ErrorMsg(r.sid, "Missing data")>>
                      /\ UNCHANGED live_scores
                 ELSE IF unknown
                 THEN /\ out' = <<ErrorMsg(r.sid, "Quiz not found")>>
                      /\ UNCHANGED live_scores
                 ELSE IF outside
                 THEN /\ out' = <<ErrorMsg(r.sid, "Invalid question index")>>
                      /\ UNCHANGED live_scores
                 ELSE /\ out'[1].ev = "score_update"
                      /\ out'[2].ev = "live_leaderboard"
                      /\ Has(ScoresOf(r.quiz_id)', r.user_id)]_vars

\* A submit for the deleted quiz has just been refused; the ledger still
\* holds u1's 10 points.
C17_Witness ==
    /\ out = <<ErrorMsg("s1", "Quiz not found")>>
    /\ ~Has(quizzes, "q1")
    /\ Keys(ScoresOf("q1")) = <<"u1">>
    /\ Get(ScoresOf("q1"), "u1") = 10

\* ------------------------------------------------------------- leaderboard
\* The leaderboard on its own: a session with up to eleven participants,
\* present and with score entries in the order they joined, whose scores
\* repeat a pattern of three values; clients then submit answers.
BoardUsers ==
    <<"p01", "p02", "p03", "p04", "p05", "p06", "p07", "p08", "p09", "p10",
      "p11">>
BoardSizes == {0, 1, 2, 3, 9, 10, 11}
BoardScores == {0, 10, 20}

BoardInit ==
    /\ \E n \in BoardSizes, f \in [0..2 -> BoardScores] :
          /\ live_scores =
                [q \in 1..1 |->
                    <<"q1", [i \in 1..n |-> <<BoardUsers[i], f[i % 3]>>]>>]
          /\ live_players =
                [q \in 1..1 |->
                    <<"q1", [i \in 1..n |->
                                <<BoardUsers[i],
                                  [username |-> NameOf(BoardUsers[i]),
                                   sid |-> "s1"]>>]>>]
    /\ live_quiz_state =
          [q \in 1..1 |->
              <<"q1", [started |-> FALSE, current_question |-> 0,
                       master_id |-> Master]>>]
    /\ quizzes = [i \in 1..1 |-> <<"q1", QuizCreated>>]
    /\ results = <<>>
    /\ tasks = <<>>
    /\ events = 0
    /\ out = <<>>

\* The first participant and one without entry answer the first question,
\* rightly or wrongly.
BoardRequests ==
    {[sid |-> "s1", quiz_id |-> "q1", user_id |-> u, has_index |-> TRUE,
      question_index |-> 0, answer |-> a] :
        u \in {"p01", "p12"}, a \in {Paris, ParisLower}}

BoardNext ==
    \E r \in BoardRequests :
        Served /\ SubmitAnswer(r.sid, r.quiz_id, r.user_id, r.has_index,
                               r.question_index, r.answer)

BoardSpec == BoardInit /\ [][BoardNext]_vars

\* The place of the ledger's i-th entry in the ranking: one more than the
\* number of entries with a higher score or with the same score and an
\* earlier place in the ledger.
RankOf(scores, i) ==
    1 + Cardinality({j \in 1..Len(scores) :
                        \/ scores[j][2] > scores[i][2]
                        \/ scores[j][2] = scores[i][2] /\ j < i})

\* board is the first min(10, n) places of the ranking of the n entries.
IsTopTen(board, scores) ==
    /\ Len(board) = IF Len(scores) < 10 THEN Len(scores) ELSE 10
    /\ \A i \in 1..Len(scores) :
          RankOf(scores, i) <= 10
          => /\ board[RankOf(scores, i)].user_id = scores[i][1]
             /\ board[RankOf(scores, i)].score = scores[i][2]

\* C18: the live_leaderboard sent to the room by a submit_answer is the first
\* min(10, n) of the session's n score entries ranked by score, highest
\* first, entries of equal score in the order of their places in the ledger.
C18_LeaderboardIsTopTen ==
    [][\A r \in BoardRequests :
          SubmitAnswer(r.sid, r.quiz_id, r.user_id, r.has_index,
                       r.question_index, r.answer)
          => /\ Len(out') = 2
             /\ out'[2].to = ToRoom(r.quiz_id)
             /\ out'[2].ev = "live_leaderboard"
             /\ IsTopTen(out'[2].data.leaderboard, ScoresOf(r.quiz_id)')]_vars

\* Eleven entries scoring 10, 20, 20, 10, 20, 20, ...: the board has the
\* seven entries with 20 in ledger order, then the first three with 10.
C18_Witness ==
    /\ Len(ScoresOf("q1")) = 11
    /\ Len(out) = 2
    /\ out[2].ev = "live_leaderboard"
    /\ [i \in 1..10 |-> out[2].data.leaderboard[i].user_id] =
          <<"p02", "p03", "p05", "p06", "p08", "p09", "p11",
            "p01", "p04", "p07">>
    /\ [i \in 1..10 |-> out[2].data.leaderboard[i].score] =
          <<20, 20, 20, 20, 20, 20, 20, 10, 10, 10>>

\* What one run may have sent so far: new_question(0), question_time_up(0),
\* new_question(1), question_time_up(1), ... with indices below the number
\* of questions, and quiz_ended, if sent, last and not between a question
\* and its time-up.
WellOrdered(sent, total) ==
    \A k \in 1..Len(sent) :
        IF sent[k][1] = "quiz_ended"
        THEN k = Len(sent) /\ k % 2 = 1
        ELSE /\ sent[k][2] < total
             /\ sent[k] = IF k % 2 = 1
                          THEN <<"new_question", (k - 1) \div 2>>
                          ELSE <<"question_time_up", (k - 2) \div 2>>

RunEvents == {"new_question", "question_time_up", "quiz_ended"}

\* C19: the new_question, question_time_up and quiz_ended events reach the
\* room only from the steps of the background tasks, one per step, and what
\* one run sends is new_question(0), question_time_up(0), new_question(1),
\* question_time_up(1), ... in this order, each index once, with quiz_ended
\* only at the end, after the time-up of the last question sent.
C19_QuestionsInOrder ==
    [][/\ \A i \in 1..Len(tasks) :
            /\ TaskQuestion(i)
               => /\ Len(out') = 1 /\ out'[1].ev = "new_question"
                  /\ tasks'[i].sent =
                        Append(tasks[i].sent,
                               <<"new_question", out'[1].data.index>>)
                  /\ WellOrdered(tasks'[i].sent, Len(tasks[i].quiz.questions))
            /\ TaskTimeUp(i)
               => /\ Len(out') = 1 /\ out'[1].ev = "question_time_up"
                  /\ tasks'[i].sent =
                        Append(tasks[i].sent,
                               <<"question_time_up", out'[1].data.index>>)
                  /\ WellOrdered(tasks'[i].sent, Len(tasks[i].quiz.questions))
            /\ TaskFinish(i)
               => /\ Len(out') = 1 /\ out'[1].ev = "quiz_ended"
                  /\ WellOrdered(Append(tasks[i].sent,
                                        <<"quiz_ended", tasks[i].idx>>),
                                 Len(tasks[i].quiz.questions))
       /\ (\E k \in 1..Len(out') : out'[k].ev \in RunEvents)
          => \E i \in 1..Len(tasks) :
                TaskQuestion(i) \/ TaskTimeUp(i) \/ TaskFinish(i)]_vars

\* A run over the two questions of the quiz has sent all five events and is
\* writing the results.
C19_Witness ==
    /\ Len(tasks) = 1
    /\ tasks[1].pc = "insert"
    /\ tasks[1].sent = << <<"new_question", 0>>, <<"question_time_up", 0>>,
                          <<"new_question", 1>>, <<"question_time_up", 1>>,
                          <<"quiz_ended", 2>> >>
    /\ out = <<Msg(ToRoom("q1"), "quiz_ended", [quiz_id |-> "q1"])>>

\* The keys each event's payload may have; correct_answer is a key of
\* question_time_up alone.
PayloadKeys(ev) ==
    CASE ev = "new_question" ->
            {"index", "total", "text", "type", "points", "time_limit", "options"}
      [] ev = "question_time_up" -> {"index", "correct_answer", "question_type"}
      [] ev = "score_update" -> {"user_id", "score", "correct", "points_earned"}
      [] ev = "live_leaderboard" -> {"leaderboard"}
      [] ev = "joined" -> {"quiz_id", "is_rejoin", "quiz_started", "current_score"}
      [] ev = "player_list" -> {"players"}
      [] ev = "player_kicked" -> {"username"}
      [] ev = "quiz_started" -> {"quiz_id", "message"}
      [] ev = "quiz_ended" -> {"quiz_id"}
      [] ev \in {"error", "kicked"} -> {"message"}
      [] OTHER -> {}

\* C20: only question_time_up carries a question's answer: every event sent
\* has only the payload keys of its kind, none of which holds the answer
\* except correct_answer of question_time_up; and question_time_up(i) is
\* sent by a run only when the time of its question i is over, after its
\* new_question(i), carrying the answer of that question.
C20_AnswerOnlyAtTimeUp ==
    [][/\ \A k \in 1..Len(out') : DOMAIN out'[k].data \subseteq PayloadKeys(out'[k].ev)
       /\ \A i \in 1..Len(tasks) :
            TaskQuestion(i)
            => /\ "answer" \notin DOMAIN out'[1].data
               /\ "correct_answer" \notin DOMAIN out'[1].data
               /\ out'[1].data.text = tasks[i].quiz.questions[tasks[i].idx + 1].text
       /\ (\E k \in 1..Len(out') : out'[k].ev = "question_time_up")
          => \E i \in 1..Len(tasks) :
                /\ TaskTimeUp(i)
                /\ tasks[i].pc = "asking"
                /\ tasks[i].sent # <<>>
                /\ tasks[i].sent[Len(tasks[i].sent)] =
                      <<"new_question", out'[1].data.index>>
                /\ out'[1].data.correct_answer =
                      tasks[i].quiz.questions[out'[1].data.index + 1].answer]_vars

\* The first question has just been sent, and u1 has since been told that
\* u1's answer to it was right.
C20_Witness ==
    /\ Len(tasks) = 1
    /\ tasks[1].pc = "asking"
    /\ tasks[1].sent = << <<"new_question", 0>> >>
    /\ Len(out) = 2
    /\ out[1] = Msg(ToSid("s1"), "score_update",
                    [user_id |-> "u1", score |-> 10, correct |-> TRUE,
                     points_earned |-> 10])

\* The point values of a quiz's questions up to the n-th, added up.
RECURSIVE PointsUpTo(_, _)
PointsUpTo(questions, n) ==
    IF n = 0 THEN 0
    ELSE PointsUpTo(questions, n - 1)
         + (IF "points" \in DOMAIN questions[n] THEN questions[n].points ELSE 1)

\* C21: every result record a run inserts has total_possible equal to the
\* sum of the point values of all questions of the quiz the run was started
\* with, whatever the number of questions the run had sent when it ended.
C21_TotalIsSumOfAllPoints ==
    [][\A i \in 1..Len(tasks) :
          TaskInsert(i, TRUE)
          => /\ Len(results') = Len(results) + 1
             /\ results'[Len(results')].total_possible =
                   PointsUpTo(tasks[i].quiz.questions,
                              Len(tasks[i].quiz.questions))]_vars

\* A run that was stopped before it had sent both questions of its quiz has
\* built a record with total_possible 15 and is inserting it.
C21_Witness ==
    \E i \in 1..Len(tasks) :
        /\ tasks[i].pc = "insert"
        /\ Len(tasks[i].quiz.questions) = 2
        /\ tasks[i].idx < 2
        /\ tasks[i].doc.total_possible = 15

\* The identities of a roster, and whether each is there once.
Ids(seq) == {seq[k] : k \in 1..Len(seq)}
NoRepeats(seq) == \A a, b \in 1..Len(seq) : a # b => seq[a] # seq[b]

\* The step takes somebody out of a lobby: leave_lobby, disconnect,
\* kick_player, or the clean-up of save_live_quiz_results.
RemovesPresence ==
    \/ \E r \in LeaveRequests : LeaveLobby(r.sid, r.quiz_id, r.user_id)
    \/ \E s \in Sids : Disconnect(s)
    \/ \E r \in KickRequests :
          KickPlayer(r.sid, r.quiz_id, r.master_id, r.target_user_id)
    \/ \E i \in 1..Len(tasks) :
          TaskFinish(i) \/ TaskInsert(i, TRUE) \/ TaskInsert(i, FALSE)

\* C22: the player_list a join sends to the room lists the identities that
\* were in the lobby before together with the joiner, each exactly once, and
\* no step other than a leave, a disconnect, a kick or the final clean-up
\* takes an identity out of the lobby; so after joins by N identities and
\* none of those steps the roster is those N identities, once each.
C22_RosterIsTheJoiners ==
    [][/\ \A r \in JoinRequests :
            (/\ r.quiz_id # Missing /\ r.user_id # Missing /\ r.username # Missing
             /\ JoinLobby(r.sid, r.quiz_id, r.user_id, r.username))
            => LET roster == [k \in 1..Len(out'[1].data.players) |->
                                out'[1].data.players[k].user_id]
               IN  /\ out'[1].to = ToRoom(r.quiz_id)
                   /\ out'[1].ev = "player_list"
                   /\ NoRepeats(roster)
                   /\ Ids(roster) = Ids(Keys(PlayersOf(r.quiz_id))) \cup {r.user_id}
                   /\ roster = Keys(PlayersOf(r.quiz_id)')
       /\ \/ \A q \in QuizIds :
                Ids(Keys(PlayersOf(q))) \subseteq Ids(Keys(PlayersOf(q)'))
          \/ RemovesPresence]_vars

\* u1, u2 and then u1 again have joined: the roster sent on the third join
\* lists u1 and u2 once each.
C22_Witness ==
    /\ Len(out) = 2
    /\ out[1] = Msg(ToRoom("q1"), "player_list",
                    [players |-> << [user_id |-> "u1", username |-> "ann"],
                                    [user_id |-> "u2", username |-> "bob"] >>])
    /\ out[2].ev = "joined"
    /\ out[2].data.is_rejoin
    /\ out[2].to = ToSid(Get(PlayersOf("q1"), "u1").sid)
    /\ Get(PlayersOf("q1"), "u2").sid # Get(PlayersOf("q1"), "u1").sid

\* No run of the quiz has sent a question yet: there is none, or each is
\* still before its first new_question.
NoQuestionYet(quiz_id) ==
    \A i \in 1..Len(tasks) :
        tasks[i].quiz_id = quiz_id
        => tasks[i].pc \in {"fetch", "loop"} /\ tasks[i].sent = <<>>

\* C23: while a quiz has a session object and no run has recorded a first
\* question, the session's current_question is -1; this includes the states
\* right after the lobby created the object and right after a start.
C23_IndexMinusOneBeforeFirstQuestion ==
    \A q \in QuizIds :
        (Has(live_quiz_state, q) /\ NoQuestionYet(q))
        => Get(live_quiz_state, q).current_question = -1

\* The request passes the checks of handle_submit_answer: nothing is
\* missing, the quiz is stored and has a question of that index.
Evaluated(r) ==
    /\ r.quiz_id # Missing /\ r.user_id # Missing /\ r.has_index
    /\ Has(quizzes, r.quiz_id)
    /\ r.question_index >= 0
    /\ r.question_index < Len(Get(quizzes, r.quiz_id).questions)

\* C24: a submit_answer that is evaluated changes the submitter's score in
\* that quiz by the question's points when the answer is correct and by 0
\* when it is not, creates at most the submitter's entry, changes no other
\* entry of live_scores, and leaves live_players and live_quiz_state as they
\* were.
C24_SubmitTouchesOwnScoreOnly ==
    [][\A r \in SubmitRequests :
          (Evaluated(r)
           /\ SubmitAnswer(r.sid, r.quiz_id, r.user_id, r.has_index,
                           r.question_index, r.answer))
          => LET question == Get(quizzes, r.quiz_id).questions[r.question_index + 1]
                 gain == IF Reference(question.type, question.answer, r.answer)
                         THEN question.points ELSE 0
             IN  /\ ScoreHeld(r.quiz_id, r.user_id)' =
                       ScoreHeld(r.quiz_id, r.user_id) + gain
                 /\ \A q \in QuizIds, u \in Players :
                       (q # r.quiz_id \/ u # r.user_id)
                       => /\ Has(ScoresOf(q)', u) = Has(ScoresOf(q), u)
                          /\ ScoreHeld(q, u)' = ScoreHeld(q, u)
                 /\ UNCHANGED <<live_players, live_quiz_state>>]_vars

\* While the quiz is running, u2's wrong answer has left u2 at 5 and u1 at
\* 10.
C24_Witness ==
    /\ Len(out) = 2
    /\ out[1] = Msg(ToSid("s1"), "score_update",
                    [user_id |-> "u2", score |-> 5, correct |-> FALSE,
                     points_earned |-> 0])
    /\ Keys(ScoresOf("q1")) = <<"u1", "u2">>
    /\ Get(ScoresOf("q1"), "u1") = 10
    /\ Get(ScoresOf("q1"), "u2") = 5
    /\ StartedOf("q1")

\* C25: the verdict and the points of an evaluated submit_answer are those
\* the reference rule gives for the stored question of that index and the
\* submitted answer, and the points are added to the submitter's score, in
\* every state: with or without a session object, before, during and after a
\* run, whatever the session's current_question and the submitter's score.
C25_VerdictIgnoresSession ==
    [][\A r \in SubmitRequests :
          (Evaluated(r)
           /\ SubmitAnswer(r.sid, r.quiz_id, r.user_id, r.has_index,
                           r.question_index, r.answer))
          => LET question == Get(quizzes, r.quiz_id).questions[r.question_index + 1]
                 verdict == Reference(question.type, question.answer, r.answer)
                 earned == IF verdict THEN question.points ELSE 0
             IN  /\ out'[1].ev = "score_update"
                 /\ out'[1].data.correct = verdict
                 /\ out'[1].data.points_earned = earned
                 /\ out'[1].data.score = ScoreHeld(r.quiz_id, r.user_id) + earned
                 /\ ScoreHeld(r.quiz_id, r.user_id)' = out'[1].data.score]_vars

\* After a run has ended and its session was cleaned up, u1 has submitted
\* the right answer to question 0 twice and holds twice its 10 points.
C25_Witness ==
    /\ NothingLeft(live_players, <<>>, live_quiz_state, "q1")
    /\ \E i \in 1..Len(tasks) : tasks[i].pc = "done"
    /\ ScoresOf("q1") = << <<"u1", 20>> >>
    /\ Len(out) = 2
    /\ out[1] = Msg(ToSid("s1"), "score_update",
                    [user_id |-> "u1", score |-> 20, correct |-> TRUE,
                     points_earned |-> 10])

\* The entries of a lobby that are not held by connection sid.
NotHeldBy(players, sid) == SelectSeq(players, LAMBDA e : e[2].sid # sid)

\* C26: a disconnect of connection h removes from every lobby the entries
\* whose sid is h and nothing else; an entry whose sid has been replaced by
\* a rejoin from another connection stays.  It sends a player_list to the
\* rooms it removed somebody from and changes nothing but live_players.
C26_DisconnectDropsOwnHandleOnly ==
    [][\A s \in Sids :
          Disconnect(s)
          => /\ Keys(live_players') = Keys(live_players)
             /\ \A q \in QuizIds :
                   PlayersOf(q)' = NotHeldBy(PlayersOf(q), s)
             /\ (out' = <<>>) = (\A q \in QuizIds :
                                    PlayersOf(q)' = PlayersOf(q))
             /\ UNCHANGED <<live_scores, live_quiz_state, results, tasks>>]_vars

\* Connection s1 has gone and u2, who was on it, with it; u1, who joined
\* before u2 and is now on s2, is still in the lobby.
C26_Witness ==
    /\ out = <<Msg(ToRoom("q1"), "player_list",
                   [players |-> <<[user_id |-> "u1", username |-> "ann"]>>])>>
    /\ PlayersOf("q1") = << <<"u1", [username |-> "ann", sid |-> "s2"]>> >>
    /\ Keys(ScoresOf("q1")) = <<"u1", "u2">>

\* A run of the quiz is under way and has sent the question of that index.
Broadcast(i, quiz_id, index) ==
    /\ tasks[i].quiz_id = quiz_id
    /\ tasks[i].pc \in {"loop", "asking"}
    /\ \E k \in 1..Len(tasks[i].sent) :
          tasks[i].sent[k] = <<"new_question", index>>

\* C27: while a quiz is started, a complete submit_answer for an index that
\* a run under way has sent is evaluated against that run's question of the
\* index (its type, answer and points), whatever has been done to the stored
\* quiz since the run fetched it.
C27_SubmitUsesTheRunsQuestion ==
    [][\A r \in SubmitRequests :
          (/\ r.quiz_id # Missing /\ r.user_id # Missing /\ r.has_index
           /\ StartedOf(r.quiz_id)
           /\ \E i \in 1..Len(tasks) :
                 Broadcast(i, r.quiz_id, r.question_index)
           /\ SubmitAnswer(r.sid, r.quiz_id, r.user_id, r.has_index,
                           r.question_index, r.answer))
          => \A i \in 1..Len(tasks) :
                Broadcast(i, r.quiz_id, r.question_index)
                => LET question ==
                           tasks[i].quiz.questions[r.question_index + 1]
                       verdict ==
                           Reference(question.type, question.answer, r.answer)
                   IN  /\ out'[1].ev = "score_update"
                       /\ out'[1].data.correct = verdict
                       /\ out'[1].data.points_earned =
                             IF verdict THEN question.points ELSE 0]_vars

\* send_questions_task has been spawned and has not returned or died yet;
\* its call of save_live_quiz_results is part of it.
Active(i) == tasks[i].pc \in {"fetch", "loop", "asking", "insert"}

\* C28: at any time at most one send_questions_task is active for a quiz id.
C28_OneActiveTaskPerQuiz ==
    \A i, j \in 1..Len(tasks) :
        (Active(i) /\ Active(j) /\ tasks[i].quiz_id = tasks[j].quiz_id)
        => i = j

\* C29: a score entry for an identity that has none in the session is
\* created by that identity's join_lobby and by nothing else; a
\* submit_answer in particular creates none.
C29_ScoreEntryOnlyByJoin ==
    [][\A q \in QuizIds :
          \A k \in 1..Len(ScoresOf(q)') :
             LET u == ScoresOf(q)'[k][1]
             IN  ~Has(ScoresOf(q), u)
                 => \E r \in JoinRequests :
                       /\ r.quiz_id = q /\ r.user_id = u
                       /\ JoinLobby(r.sid, r.quiz_id, r.user_id,
                                    r.username)]_vars

\* C30: when the lobby route creates the session object of a quiz id,
\* live_players and live_scores hold no entry for that quiz id.
C30_SessionCreatedClean ==
    [][\A q \in QuizIds :
          (Lobby(q) /\ ~Has(live_quiz_state, q) /\ Has(live_quiz_state', q))
          => ~Has(live_players, q) /\ ~Has(live_scores, q)]_vars

\* C31: every result record carries the display name under which its
\* participant joined the session (an identity joins under one name,
\* NameOf), also when the participant has left or disconnected since.
C31_RecordCarriesJoinName ==
    \A k \in 1..Len(results) :
        results[k].student_name = NameOf(results[k].student_id)

====
